---- MODULE Spec2Model ----
(***************************************************************************)
(* The native OpenSSL cipher binding of the proxy                           *)
(* (native/src/main/c/jni_cipher_openssl.c): init allocates an              *)
(* EVP_CIPHER_CTX and initialises it for AES-128-CFB8 with the 16-byte key  *)
(* used as key and as IV; process runs EVP_CipherUpdate on raw buffers;     *)
(* free releases the context.                                               *)
(***************************************************************************)
EXTENDS Integers, Sequences, FiniteSets, TLC

(***************************************************************************)
(* Bytes and AES-128 (FIPS-197), the block cipher EVP_aes_128_cfb8 names.   *)
(***************************************************************************)
Byte == 0..255

\* a XOR b on 4-bit values, tabulated
NibbleXor ==
  << <<  0,  1,  2,  3,  4,  5,  6,  7,  8,  9, 10, 11, 12, 13, 14, 15 >>,
     <<  1,  0,  3,  2,  5,  4,  7,  6,  9,  8, 11, 10, 13, 12, 15, 14 >>,
     <<  2,  3,  0,  1,  6,  7,  4,  5, 10, 11,  8,  9, 14, 15, 12, 13 >>,
     <<  3,  2,  1,  0,  7,  6,  5,  4, 11, 10,  9,  8, 15, 14, 13, 12 >>,
     <<  4,  5,  6,  7,  0,  1,  2,  3, 12, 13, 14, 15,  8,  9, 10, 11 >>,
     <<  5,  4,  7,  6,  1,  0,  3,  2, 13, 12, 15, 14,  9,  8, 11, 10 >>,
     <<  6,  7,  4,  5,  2,  3,  0,  1, 14, 15, 12, 13, 10, 11,  8,  9 >>,
     <<  7,  6,  5,  4,  3,  2,  1,  0, 15, 14, 13, 12, 11, 10,  9,  8 >>,
     <<  8,  9, 10, 11, 12, 13, 14, 15,  0,  1,  2,  3,  4,  5,  6,  7 >>,
     <<  9,  8, 11, 10, 13, 12, 15, 14,  1,  0,  3,  2,  5,  4,  7,  6 >>,
     << 10, 11,  8,  9, 14, 15, 12, 13,  2,  3,  0,  1,  6,  7,  4,  5 >>,
     << 11, 10,  9,  8, 15, 14, 13, 12,  3,  2,  1,  0,  7,  6,  5,  4 >>,
     << 12, 13, 14, 15,  8,  9, 10, 11,  4,  5,  6,  7,  0,  1,  2,  3 >>,
     << 13, 12, 15, 14,  9,  8, 11, 10,  5,  4,  7,  6,  1,  0,  3,  2 >>,
     << 14, 15, 12, 13, 10, 11,  8,  9,  6,  7,  4,  5,  2,  3,  0,  1 >>,
     << 15, 14, 13, 12, 11, 10,  9,  8,  7,  6,  5,  4,  3,  2,  1,  0 >> >>

\* a XOR b on bytes
Xor(a, b) ==
  16 * NibbleXor[(a \div 16) + 1][(b \div 16) + 1] + NibbleXor[(a % 16) + 1][(b % 16) + 1]

\* the AES substitution box
SBox ==
  <<  99, 124, 119, 123, 242, 107, 111, 197,  48,   1, 103,  43, 254, 215, 171, 118,
     202, 130, 201, 125, 250,  89,  71, 240, 173, 212, 162, 175, 156, 164, 114, 192,
     183, 253, 147,  38,  54,  63, 247, 204,  52, 165, 229, 241, 113, 216,  49,  21,
       4, 199,  35, 195,  24, 150,   5, 154,   7,  18, 128, 226, 235,  39, 178, 117,
       9, 131,  44,  26,  27, 110,  90, 160,  82,  59, 214, 179,  41, 227,  47, 132,
      83, 209,   0, 237,  32, 252, 177,  91, 106, 203, 190,  57,  74,  76,  88, 207,
     208, 239, 170, 251,  67,  77,  51, 133,  69, 249,   2, 127,  80,  60, 159, 168,
      81, 163,  64, 143, 146, 157,  56, 245, 188, 182, 218,  33,  16, 255, 243, 210,
     205,  12,  19, 236,  95, 151,  68,  23, 196, 167, 126,  61, 100,  93,  25, 115,
      96, 129,  79, 220,  34,  42, 144, 136,  70, 238, 184,  20, 222,  94,  11, 219,
     224,  50,  58,  10,  73,   6,  36,  92, 194, 211, 172,  98, 145, 149, 228, 121,
     231, 200,  55, 109, 141, 213,  78, 169, 108,  86, 244, 234, 101, 122, 174,   8,
     186, 120,  37,  46,  28, 166, 180, 198, 232, 221, 116,  31,  75, 189, 139, 138,
     112,  62, 181, 102,  72,   3, 246,  14,  97,  53,  87, 185, 134, 193,  29, 158,
     225, 248, 152,  17, 105, 217, 142, 148, 155,  30, 135, 233, 206,  85,  40, 223,
     140, 161, 137,  13, 191, 230,  66, 104,  65, 153,  45,  15, 176,  84, 187,  22 >>

\* round constants of the key schedule
Rcon == << 1, 2, 4, 8, 16, 32, 64, 128, 27, 54 >>

\* 2 * SBox[x] in GF(2^8) modulo x^8 + x^4 + x^3 + x + 1
Mul2SBox ==
  << 198, 248, 238, 246, 255, 214, 222, 145,  96,   2, 206,  86, 231, 181,  77, 236,
     143,  31, 137, 250, 239, 178, 142, 251,  65, 179,  95,  69,  35,  83, 228, 155,
     117, 225,  61,  76, 108, 126, 245, 131, 104,  81, 209, 249, 226, 171,  98,  42,
       8, 149,  70, 157,  48,  55,  10,  47,  14,  36,  27, 223, 205,  78, 127, 234,
      18,  29,  88,  52,  54, 220, 180,  91, 164, 118, 183, 125,  82, 221,  94,  19,
     166, 185,   0, 193,  64, 227, 121, 182, 212, 141, 103, 114, 148, 152, 176, 133,
     187, 197,  79, 237, 134, 154, 102,  17, 138, 233,   4, 254, 160, 120,  37,  75,
     162,  93, 128,   5,  63,  33, 112, 241,  99, 119, 175,  66,  32, 229, 253, 191,
     129,  24,  38, 195, 190,  53, 136,  46, 147,  85, 252, 122, 200, 186,  50, 230,
     192,  25, 158, 163,  68,  84,  59,  11, 140, 199, 107,  40, 167, 188,  22, 173,
     219, 100, 116,  20, 146,  12,  72, 184, 159, 189,  67, 196,  57,  49, 211, 242,
     213, 139, 110, 218,   1, 177, 156,  73, 216, 172, 243, 207, 202, 244,  71,  16,
     111, 240,  74,  92,  56,  87, 115, 151, 203, 161, 232,  62, 150,  97,  13,  15,
     224, 124, 113, 204, 144,   6, 247,  28, 194, 106, 174, 105,  23, 153,  58,  39,
     217, 235,  43,  34, 210, 169,   7,  51,  45,  60,  21, 201, 135, 170,  80, 165,
       3,  89,   9,  26, 101, 215, 132, 208, 130,  41,  90,  30, 123, 168, 109,  44 >>

\* 3 * SBox[x] in GF(2^8)
Mul3SBox ==
  << 165, 132, 153, 141,  13, 189, 177,  84,  80,   3, 169, 125,  25,  98, 230, 154,
      69, 157,  64, 135,  21, 235, 201,  11, 236, 103, 253, 234, 191, 247, 150,  91,
     194,  28, 174, 106,  90,  65,   2,  79,  92, 244,  52,   8, 147, 115,  83,  63,
      12,  82, 101,  94,  40, 161,  15, 181,   9,  54, 155,  61,  38, 105, 205, 159,
      27, 158, 116,  46,  45, 178, 238, 251, 246,  77,  97, 206, 123,  62, 113, 151,
     245, 104,   0,  44,  96,  31, 200, 237, 190,  70, 217,  75, 222, 212, 232,  74,
     107,  42, 229,  22, 197, 215,  85, 148, 207,  16,   6, 129, 240,  68, 186, 227,
     243, 254, 192, 138, 173, 188,  72,   4, 223, 193, 117,  99,  48,  26,  14, 109,
      76,  20,  53,  47, 225, 162, 204,  57,  87, 242, 130,  71, 172, 231,  43, 149,
     160, 152, 209, 127, 102, 126, 171, 131, 202,  41, 211,  60, 121, 226,  29, 118,
      59,  86,  78,  30, 219,  10, 108, 228,  93, 110, 239, 166, 168, 164,  55, 139,
      50,  67,  89, 183, 140, 100, 210, 224, 180, 250,   7,  37, 175, 142, 233,  24,
     213, 136, 111, 114,  36, 241, 199,  81,  35, 124, 156,  33, 221, 220, 134, 133,
     144,  66, 196, 170, 216,   5,   1,  18, 163,  95, 249, 208, 145,  88,  39, 185,
      56,  19, 179,  51, 187, 112, 137, 167, 182,  34, 146,  32,  73, 255, 120, 122,
     143, 248, 128,  23, 218,  49, 198, 184, 195, 176, 119,  17, 203, 252, 214,  58 >>

\* tuples are written out element by element, so that each byte is computed once
XorWord(u, v) == << Xor(u[1], v[1]), Xor(u[2], v[2]), Xor(u[3], v[3]), Xor(u[4], v[4]) >>

RECURSIVE ExpandKey(_)
\* w: the key schedule words built so far, 44 in the end
ExpandKey(w) ==
  LET i == Len(w)
  IN IF i = 44 THEN w
     ELSE LET prev == w[i]
              temp == IF i % 4 = 0
                      THEN << Xor(SBox[prev[2] + 1], Rcon[i \div 4]), SBox[prev[3] + 1],
                              SBox[prev[4] + 1], SBox[prev[1] + 1] >>
                      ELSE prev
          IN ExpandKey(Append(w, XorWord(w[i - 3], temp)))

\* the 11 round keys of a 16-byte key, each 16 bytes
AES_set_encrypt_key(key) ==
  LET Word(i) == << key[4 * i - 3], key[4 * i - 2], key[4 * i - 1], key[4 * i] >>
      w == ExpandKey(<< Word(1), Word(2), Word(3), Word(4) >>)
      RoundKey(r) ==
        LET B(i) == w[4 * (r - 1) + ((i - 1) \div 4) + 1][((i - 1) % 4) + 1]
        IN << B(1), B(2), B(3), B(4), B(5), B(6), B(7), B(8),
              B(9), B(10), B(11), B(12), B(13), B(14), B(15), B(16) >>
  IN << RoundKey(1), RoundKey(2), RoundKey(3), RoundKey(4), RoundKey(5), RoundKey(6),
        RoundKey(7), RoundKey(8), RoundKey(9), RoundKey(10), RoundKey(11) >>

AddRoundKey(s, k) ==
  LET B(i) == Xor(s[i], k[i])
  IN << B(1), B(2), B(3), B(4), B(5), B(6), B(7), B(8),
        B(9), B(10), B(11), B(12), B(13), B(14), B(15), B(16) >>

\* byte (row r, column c) of the state sits at index r + 4c + 1.  ShiftRows
\* rotates row r left by r, so the byte that lands at (r, c) comes from
\* (r, (c + r) % 4)
Shifted(s, r, c) == s[r + 4 * ((c + r) % 4) + 1]

\* one full round: SubBytes, ShiftRows, MixColumns, AddRoundKey.  MixColumns
\* makes row r of a column 2*a_r + 3*a_(r+1) + a_(r+2) + a_(r+3)
Round(s, k) ==
  LET B(i) ==
        LET r == (i - 1) % 4
            c == (i - 1) \div 4
        IN Xor(Xor(Mul2SBox[Shifted(s, r, c) + 1], Mul3SBox[Shifted(s, (r + 1) % 4, c) + 1]),
               Xor(Xor(SBox[Shifted(s, (r + 2) % 4, c) + 1], SBox[Shifted(s, (r + 3) % 4, c) + 1]),
                   k[i]))
  IN << B(1), B(2), B(3), B(4), B(5), B(6), B(7), B(8),
        B(9), B(10), B(11), B(12), B(13), B(14), B(15), B(16) >>

\* the last round has no MixColumns
FinalRound(s, k) ==
  [i \in 1..16 |-> Xor(SBox[Shifted(s, (i - 1) % 4, (i - 1) \div 4) + 1], k[i])]

RECURSIVE Rounds(_, _, _)
\* rounds r..10 on state s; the state of a round is complete (16 bytes) before
\* the next round starts
Rounds(s, ks, r) ==
  IF Len(s) = 16 /\ r < 10
  THEN Rounds(Round(s, ks[r + 1]), ks, r + 1)
  ELSE FinalRound(s, ks[11])

\* one block through AES-128 under the key schedule ks
AES_encrypt(block, ks) == Rounds(AddRoundKey(block, ks[1]), ks, 1)

(***************************************************************************)
(* The cipher context and the EVP calls the binding makes.                  *)
(***************************************************************************)
\* the length init requires of the key
KeyLen == 16

\* how many contexts the allocator can hold at once
MaxCtx == 2

\* the capacity, in bytes, of each buffer handed to process
BufCap == 2

\* the longest stream a context is given
MaxStream == 2

\* the byte values keys are filled with
MaxKeyByte == 1
MaxCalls == 2

Handles == 1..MaxCtx

\* the null pointer, and the handle init returns on failure
NULL == 0

\* a context as EVP_CIPHER_CTX_new leaves it: zeroed, no cipher set
NewCtx == [cipher |-> "none", encrypt |-> 0, ks |-> << >>, iv |-> << >>]

\* where EVP_CipherInit can fail: before the cipher is taken (every
\* allocation refused), or after, when the provider's context is allocated
InitFailurePoints == {"cipher", "provider"}

\* EVP_CipherInit(ctx, EVP_aes_128_cfb8(), key, iv, enc); result is what the
\* library reports (1 on success), at the point it failed at otherwise.  The
\* library stores the direction first and the cipher next, the key schedule
\* and the register last: a failing call leaves what it had stored by then.
EVP_CipherInit(c, keyBytes, ivBytes, enc, result, at) ==
  IF result = 1
  THEN [cipher |-> "aes-128-cfb8", encrypt |-> enc,
        ks |-> AES_set_encrypt_key(keyBytes), iv |-> ivBytes]
  ELSE IF at = "provider"
  THEN [c EXCEPT !.encrypt = enc, !.cipher = "aes-128-cfb8"]
  ELSE [c EXCEPT !.encrypt = enc]

\* a feedback that takes the output byte in both directions
Feedback_Output(c, x, y) == y

\* the byte shifted into the register: the ciphertext byte, which is the
\* output y when encrypting and the input x when decrypting
Feedback(c, x, y) == IF c.encrypt = 1 THEN y ELSE x

\* one byte of CFB8: the keystream byte is the first byte of the encrypted
\* register; the register shifts left by one byte and takes the ciphertext
\* byte, which is the output when encrypting and the input when decrypting.
\* st.n bytes are done; in and out are the offsets of the two buffers in st.mem
\* the feedback byte read back from the source position after the output byte
\* has been stored
Cfb8Byte_ReadsAfterWrite(c, st, out, in) ==
  LET x   == st.mem[in + st.n + 1]
      y   == Xor(x, AES_encrypt(st.iv, c.ks)[1])
      mem == [st.mem EXCEPT ![out + st.n + 1] = y]
      fb  == Feedback(c, mem[in + st.n + 1], y)
  IN [n |-> st.n + 1, iv |-> Tail(st.iv) \o << fb >>, mem |-> mem,
      reads |-> st.reads \cup {in + st.n}, writes |-> st.writes \cup {out + st.n}]

Cfb8Byte(c, st, out, in) ==
  LET x  == st.mem[in + st.n + 1]
      y  == Xor(x, AES_encrypt(st.iv, c.ks)[1])
      fb == Feedback(c, x, y)
  IN [n      |-> st.n + 1,
      iv     |-> Tail(st.iv) \o << fb >>,
      mem    |-> [st.mem EXCEPT ![out + st.n + 1] = y],
      reads  |-> st.reads \cup {in + st.n},
      writes |-> st.writes \cup {out + st.n}]

RECURSIVE Cfb8Loop_DoWhile(_, _, _, _, _)
\* a loop that tests the length after the first byte
Cfb8Loop_DoWhile(c, st, out, in, inl) ==
  IF st.n >= 1 /\ st.n >= inl THEN st
  ELSE Cfb8Loop_DoWhile(c, Cfb8Byte(c, st, out, in), out, in, inl)

RECURSIVE Cfb8Loop_OffByOne(_, _, _, _, _)
\* a loop that runs for offsets 0..inl
Cfb8Loop_OffByOne(c, st, out, in, inl) ==
  IF st.n > inl THEN st ELSE Cfb8Loop_OffByOne(c, Cfb8Byte(c, st, out, in), out, in, inl)

RECURSIVE Cfb8Loop(_, _, _, _, _)
\* the bytes at offsets 0..inl-1, in order
Cfb8Loop(c, st, out, in, inl) ==
  IF st.n >= inl THEN st ELSE Cfb8Loop(c, Cfb8Byte(c, st, out, in), out, in, inl)

\* an update that works on a copy of the register
KeepIv_Dropped(c, iv) == c

\* the context after an update: the register is kept for the next call
\* an update that leaves the context decrypting
KeepIv_ClearsMode(c, iv) == [c EXCEPT !.iv = iv, !.encrypt = 0]

KeepIv(c, iv) == [c EXCEPT !.iv = iv]

\* EVP_CipherUpdate(ctx, out, &outl, in, inl) on memory mem; result is what the
\* library reports: 1, or 0 when it fails before touching the buffers
EVP_CipherUpdate(c, mem, out, in, inl, result) ==
  LET st == IF result = 1
            THEN Cfb8Loop(c, [n |-> 0, iv |-> c.iv, mem |-> mem, reads |-> {}, writes |-> {}],
                          out, in, inl)
            ELSE [n |-> 0, iv |-> c.iv, mem |-> mem, reads |-> {}, writes |-> {}]
  IN [ret |-> result, outl |-> st.n, ctx |-> KeepIv(c, st.iv),
      mem |-> st.mem, reads |-> st.reads, writes |-> st.writes]

(***************************************************************************)
(* State.                                                                   *)
(***************************************************************************)
VARIABLES
  heap,    \* the allocated EVP_CIPHER_CTX objects, by address
  owned,   \* the handles init has returned and the caller has not freed
  keyOf,   \* handle -> the key its context was constructed with
  modeOf,  \* handle -> the encrypt flag its context was constructed with
  inp,     \* handle -> the bytes its context has been given, in call order
  outp,    \* handle -> the bytes its context has produced, in call order
  last,    \* the last call: its arguments and what the caller observes
  inflight,    \* thread -> the call of process it is inside, and how far it is
  overlapped   \* the handles on which two calls of process have overlapped

vars == << heap, owned, keyOf, modeOf, inp, outp, last, inflight, overlapped >>

Live == DOMAIN heap

\* the threads of the caller
Threads == 1..MaxCalls

\* a thread that is in no call of process
Idle == [pc |-> "idle", ptr |-> NULL, mem |-> << >>, after |-> << >>, source |-> 0,
         dest |-> 0, ovec |-> << >>, tmp |-> << >>]

\* the contexts some thread is inside a call of process on
Busy == {inflight[t].ptr : t \in {u \in Threads : inflight[u].pc # "idle"}}

\* the keys callers pass: KeyLen - 1 .. KeyLen + 1 bytes of one value
Keys == {[i \in 1..n |-> v] : n \in (KeyLen - 1)..(KeyLen + 1), v \in 0..MaxKeyByte}

\* "Hello, world!"
Message == << 72, 101, 108, 108, 111, 44, 32, 119, 111, 114, 108, 100, 33 >>

\* what a buffer holds where the caller put no data
Filler == 238

IsPrefix(s, t) == Len(s) <= Len(t) /\ SubSeq(t, 1, Len(s)) = s

\* the streams a caller feeds context h from: the message, or what another
\* context has made of the message so far
Streams(h) == {Message} \cup {outp[g] : g \in {f \in owned \ {h} : IsPrefix(inp[f], Message)}}

\* the next n bytes for context h: it continues a stream it has been fed so far
NextData(h, n) ==
  {SubSeq(s, Len(inp[h]) + 1, Len(inp[h]) + n) :
     s \in {t \in Streams(h) : IsPrefix(inp[h], t) /\ Len(inp[h]) + n <= Len(t)}}

Init ==
  /\ heap = [h \in {} |-> NewCtx]
  /\ owned = {}
  /\ keyOf = [h \in Handles |-> << >>]
  /\ modeOf = [h \in Handles |-> 0]
  /\ inp = [h \in Handles |-> << >>]
  /\ outp = [h \in Handles |-> << >>]
  /\ last = [op |-> "none"]
  /\ inflight = [t \in Threads |-> Idle]
  /\ overlapped = {}

(***************************************************************************)
(* OpenSslCipherImpl.init(key, encrypt)                                     *)
(***************************************************************************)
\* what EVP_CIPHER_CTX_new can return: NULL (out of memory), or the address
\* of a fresh context
EVP_CIPHER_CTX_new(hp) ==
  LET free == Handles \ DOMAIN hp
  IN {NULL} \cup {a \in free : \A b \in free : a <= b}

\* a free that takes the null pointer to mean every context
EVP_CIPHER_CTX_free_NullFreesAll(hp, ptr) ==
  IF ptr = NULL THEN [a \in {} |-> NewCtx] ELSE [a \in DOMAIN hp \ {ptr} |-> hp[a]]

EVP_CIPHER_CTX_free(hp, ptr) == [a \in DOMAIN hp \ {ptr} |-> hp[a]]

\* GetByteArrayRegion(key, start, len, buf): the bytes copied into buf
GetByteArrayRegion(key, start, len) == SubSeq(key, start + 1, start + len)

\* an all-zero initialization vector
InitVector_Zero(keyBytes) == [i \in 1..KeyLen |-> 0]

\* the initialization vector init hands to EVP_CipherInit: the key bytes
InitVector(keyBytes) == keyBytes

\* a context initialised by init for key bytes keyBytes
InitCtx(keyBytes, encrypt, result, at) ==
  EVP_CipherInit(NewCtx, keyBytes, InitVector(keyBytes), encrypt, result, at)

\* a length check that rejects only keys that are too short
KeyLenOk_AtLeast(keyLen) == keyLen >= KeyLen

\* the key length init accepts
KeyLenOk(keyLen) == keyLen = KeyLen

\* a failure path that returns without EVP_CIPHER_CTX_free
InitFailed_NoFree(hp, ctx) == hp

\* the heap when init returns after a failed EVP_CipherInit
InitFailed(hp, ctx) == EVP_CIPHER_CTX_free(hp, ctx)

\* the heap when init returns with an exception pending after the key copy
CopyFailed(hp, ctx) == hp

\* the exception classes init throws
IllegalArgument == "java/lang/IllegalArgumentException"

\* an allocation failure reported with the class of the backend failure
OutOfMemory_AsGeneralSecurity == "java/security/GeneralSecurityException"

OutOfMemory == "java/lang/OutOfMemoryError"

GeneralSecurity == "java/security/GeneralSecurityException"

\* the exception GetByteArrayRegion leaves pending when it fails
ArrayIndexOutOfBounds == "java/lang/ArrayIndexOutOfBoundsException"

\* the outcome of a failed init: 0 is returned with exception exc pending;
\* ctx is what EVP_CIPHER_CTX_new returned (NULL when not reached), result
\* what EVP_CipherInit returned (-1 when not reached)
InitThrows(keyLen, exc, ctx, result) ==
  /\ last' = [op |-> "init", keyLen |-> keyLen, ret |-> NULL, exc |-> exc,
              ctx |-> ctx, result |-> result]
  /\ UNCHANGED << owned, keyOf, modeOf, inp, outp, inflight, overlapped >>

\* init with the allocation made before the key length is looked at
init_AllocFirst(key, encrypt) ==
  LET keyLen == Len(key)
  IN \E ctx \in EVP_CIPHER_CTX_new(heap) :
       IF ctx = NULL
       THEN /\ InitThrows(keyLen, OutOfMemory, NULL, -1)
            /\ heap' = heap
       ELSE IF ~KeyLenOk(keyLen)
       THEN /\ InitThrows(keyLen, IllegalArgument, ctx, -1)
            /\ heap' = EVP_CIPHER_CTX_free((ctx :> NewCtx) @@ heap, ctx)
       ELSE \E copyExc \in BOOLEAN :
         IF copyExc
         THEN /\ InitThrows(keyLen, ArrayIndexOutOfBounds, ctx, -1)
              /\ heap' = CopyFailed((ctx :> NewCtx) @@ heap, ctx)
         ELSE \E result \in {0, 1} :
           IF result # 1
           THEN \E at \in InitFailurePoints :
                /\ InitThrows(keyLen, GeneralSecurity, ctx, result)
                /\ heap' = InitFailed((ctx :> InitCtx(GetByteArrayRegion(key, 0, keyLen),
                                                      encrypt, result, at)) @@ heap, ctx)
           ELSE /\ last' = [op |-> "init", keyLen |-> keyLen, ret |-> ctx, exc |-> "none",
                            ctx |-> ctx, result |-> result]
                /\ heap' = (ctx :> InitCtx(GetByteArrayRegion(key, 0, keyLen), encrypt, result,
                                           "none")) @@ heap
                /\ owned' = owned \cup {ctx}
                /\ keyOf' = [keyOf EXCEPT ![ctx] = key]
                /\ modeOf' = [modeOf EXCEPT ![ctx] = encrypt]
                /\ inp' = [inp EXCEPT ![ctx] = << >>]
                /\ outp' = [outp EXCEPT ![ctx] = << >>]
                /\ UNCHANGED << inflight, overlapped >>

init(key, encrypt) ==
  LET keyLen == Len(key)
  IN IF ~KeyLenOk(keyLen)
     THEN /\ InitThrows(keyLen, IllegalArgument, NULL, -1)
          /\ heap' = heap
     ELSE \E ctx \in EVP_CIPHER_CTX_new(heap) :
       IF ctx = NULL
       THEN /\ InitThrows(keyLen, OutOfMemory, NULL, -1)
            /\ heap' = heap
       ELSE \E copyExc \in BOOLEAN :
         \* GetByteArrayRegion, then ExceptionCheck
         IF copyExc
         THEN /\ InitThrows(keyLen, ArrayIndexOutOfBounds, ctx, -1)
              /\ heap' = CopyFailed((ctx :> NewCtx) @@ heap, ctx)
         ELSE \E result \in {0, 1} :
           IF result # 1
           THEN \E at \in InitFailurePoints :
                /\ InitThrows(keyLen, GeneralSecurity, ctx, result)
                /\ heap' = InitFailed((ctx :> InitCtx(GetByteArrayRegion(key, 0, keyLen),
                                                      encrypt, result, at)) @@ heap, ctx)
           ELSE /\ last' = [op |-> "init", keyLen |-> keyLen, ret |-> ctx, exc |-> "none",
                            ctx |-> ctx, result |-> result]
                /\ heap' = (ctx :> InitCtx(GetByteArrayRegion(key, 0, keyLen), encrypt, result,
                                           "none")) @@ heap
                /\ owned' = owned \cup {ctx}
                /\ keyOf' = [keyOf EXCEPT ![ctx] = key]
                /\ modeOf' = [modeOf EXCEPT ![ctx] = encrypt]
                /\ inp' = [inp EXCEPT ![ctx] = << >>]
                /\ outp' = [outp EXCEPT ![ctx] = << >>]
                /\ UNCHANGED << inflight, overlapped >>

Construct == \E key \in Keys, encrypt \in {0, 1} : init(key, encrypt)

(***************************************************************************)
(* OpenSslCipherImpl.free(ptr)                                              *)
(***************************************************************************)
free(ptr) ==
  /\ heap' = EVP_CIPHER_CTX_free(heap, ptr)
  /\ owned' = owned \ {ptr}
  /\ last' = [op |-> "free", ptr |-> ptr, exc |-> "none"]
  /\ keyOf' = [h \in Handles |-> IF h = ptr THEN << >> ELSE keyOf[h]]
  /\ modeOf' = [h \in Handles |-> IF h = ptr THEN 0 ELSE modeOf[h]]
  /\ inp' = [h \in Handles |-> IF h = ptr THEN << >> ELSE inp[h]]
  /\ outp' = [h \in Handles |-> IF h = ptr THEN << >> ELSE outp[h]]
  /\ overlapped' = overlapped \ {ptr}
  /\ UNCHANGED inflight

\* the caller frees no context a thread is still inside a call on
Release == \E ptr \in (owned \ Busy) \cup {NULL} : free(ptr)

(***************************************************************************)
(* OpenSslCipherImpl.process(ptr, source, len, dest)                        *)
(* Memory is 2 * BufCap bytes; the source buffer is at offset 0, the        *)
(* destination at offset dest: 0 (in place) or BufCap (a separate buffer).  *)
(***************************************************************************)
\* the update acts on the context the handle points to and on nothing else;
\* the handler does nothing with the context after the update, whatever the
\* update returned
StoreCtx_Shared(hp, ptr, r) == [a \in DOMAIN hp |-> r.ctx]

StoreCtx_FreeOnFailure(hp, ptr, r) ==
  IF r.ret = 1 THEN [hp EXCEPT ![ptr] = r.ctx] ELSE EVP_CIPHER_CTX_free(hp, ptr)

StoreCtx(hp, ptr, r) == [hp EXCEPT ![ptr] = r.ctx]

process(ptr, mem, source, len, dest) ==
  \E result \in {0, 1} :
    \E r \in {EVP_CipherUpdate(heap[ptr], mem, dest, source, len, result)} :
       /\ heap' = StoreCtx(heap, ptr, r)
       /\ inp' = [inp EXCEPT ![ptr] = @ \o SubSeq(mem, source + 1, source + r.outl)]
       /\ outp' = [outp EXCEPT ![ptr] = @ \o SubSeq(r.mem, dest + 1, dest + r.outl)]
       /\ last' = [op |-> "process", ptr |-> ptr, len |-> len, source |-> source,
                   dest |-> dest, before |-> mem, after |-> r.mem, reads |-> r.reads,
                   writes |-> r.writes, result |-> r.ret, exc |-> "none"]
       /\ UNCHANGED << owned, keyOf, modeOf, inflight, overlapped >>

Process ==
  \E ptr \in owned, len \in 0..BufCap, dest \in {0, BufCap} :
    /\ Len(inp[ptr]) + len <= MaxStream
    /\ \E data \in NextData(ptr, len) :
         process(ptr, data \o [i \in 1..(2 * BufCap - len) |-> Filler], 0, len, dest)

Next == Construct \/ Release \/ Process

Spec == Init /\ [][Next]_vars

\* ---- a caller that does not keep the stream order ----
\* The handler is the same; only the caller differs.  It cuts the first
\* MaxStream bytes of the message into one-byte calls and makes them in any
\* order, one after another or from two threads at once, puts each output
\* byte at the stream offset of its input byte, and hands the stream so
\* reassembled to other contexts in stream order.

Plain == SubSeq(Message, 1, MaxStream)

Range(s) == {s[i] : i \in 1..Len(s)}

\* context h has been handed every byte of Plain once, in some order
TookAll(h) == Len(inp[h]) = Len(Plain) /\ Range(inp[h]) = Range(Plain)

\* the call in which context h was handed the byte of stream offset k
CallOf(h, k) == CHOOSE i \in 1..Len(inp[h]) : inp[h][i] = Plain[k]

\* the output of h with each byte at the stream offset of its input byte
Reassembled(h) == [k \in 1..Len(Plain) |-> outp[h][CallOf(h, k)]]

\* the bytes of the calls on context h that threads are inside of
InFlightBytes(h) ==
  {inflight[t].mem[inflight[t].source + 1] :
     t \in {u \in Threads : inflight[u].pc # "idle" /\ inflight[u].ptr = h}}

\* the bytes of Plain context h has not been handed yet, at any offset
PlainData(h) ==
  {Plain[k] : k \in {j \in 1..Len(Plain) :
                       Range(inp[h]) \subseteq Range(Plain)
                         /\ Plain[j] \notin Range(inp[h]) \cup InFlightBytes(h)}}

\* the bytes the caller may hand context h next: a byte of Plain not handed to
\* it yet, or the next byte of a reassembled stream
ReorderData(h) ==
  {<< b >> : b \in PlainData(h)}
    \cup {<< s[Len(inp[h]) + 1] >> :
             s \in {t \in {Reassembled(g) : g \in {f \in owned \ {h} : TookAll(f)}} :
                      IsPrefix(inp[h], t)}}

\* While a thread is inside a call of process the caller makes no other kind
\* of call: what surrounds two overlapping calls is left to the steps before
\* and after them.
ConstructQuiet == Busy = {} /\ Construct

ReleaseQuiet == Busy = {} /\ Release

\* a call made while no thread is inside a call, into a separate destination
ProcessReordered ==
  /\ Busy = {}
  /\ \E ptr \in owned, dest \in {BufCap} :
       /\ Len(inp[ptr]) + 1 <= MaxStream
       /\ \E data \in ReorderData(ptr) :
            process(ptr, data \o [i \in 1..(2 * BufCap - 1) |-> Filler], 0, 1, dest)

\* ---- calls that overlap in time ----
\* process takes no lock, so a thread can be inside EVP_CipherUpdate on a
\* context while another thread is.  The update of one byte reads and writes
\* the register of the context five times: it copies the register, reads it
\* to encrypt it, stores the encrypted block over it, reads the first byte of
\* what is there to make the output byte, and stores the shifted copy.  Each
\* of the five accesses of the register is one step; the steps of two calls
\* on one context interleave in any way.  Entering the call touches nothing
\* shared and is one step with the first access.

\* thread t enters process(ptr, source, 1, dest) with byte b in its buffer,
\* into a separate destination, and copies the register
CallEnter(t) ==
  /\ inflight[t].pc = "idle"
  /\ \A u \in Threads : u < t => inflight[u].pc # "idle"
  /\ \E ptr \in {h \in owned : Live = {h}} :
       \E b \in {a \in PlainData(ptr) : ptr \in Busy \/ PlainData(ptr) # {a}} :
         /\ inflight' = [inflight EXCEPT ![t] =
                           [pc |-> "block", ptr |-> ptr,
                            mem |-> << b >> \o [i \in 1..(2 * BufCap - 1) |-> Filler],
                            after |-> << >>, source |-> 0, dest |-> BufCap,
                            ovec |-> heap[ptr].iv, tmp |-> << >>]]
         /\ overlapped' = IF ptr \in Busy THEN overlapped \cup {ptr} ELSE overlapped
         /\ last' = [op |-> "enter", ptr |-> ptr, exc |-> "none"]
  /\ UNCHANGED << heap, owned, keyOf, modeOf, inp, outp >>

\* the register is read and encrypted
CallBlock(t) ==
  /\ inflight[t].pc = "block"
  /\ \E c \in {heap[inflight[t].ptr]} :
       inflight' = [inflight EXCEPT ![t].pc = "blockstore",
                                    ![t].tmp = AES_encrypt(c.iv, c.ks)]
  /\ UNCHANGED << heap, owned, keyOf, modeOf, inp, outp, last, overlapped >>

\* the encrypted block is stored over the register
CallBlockStore(t) ==
  /\ inflight[t].pc = "blockstore"
  /\ heap' = [heap EXCEPT ![inflight[t].ptr].iv = inflight[t].tmp]
  /\ inflight' = [inflight EXCEPT ![t].pc = "xor"]
  /\ UNCHANGED << owned, keyOf, modeOf, inp, outp, last, overlapped >>

\* the output byte is made of the input byte and the first byte of the
\* register, and the feedback byte is put after the copy
CallXor(t) ==
  /\ inflight[t].pc = "xor"
  /\ \E f \in {inflight[t]} :
       \E c \in {heap[f.ptr]} :
         \E x \in {f.mem[f.source + 1]} :
           \E y \in {Xor(x, c.iv[1])} :
             inflight' = [inflight EXCEPT ![t].pc = "shift",
                                          ![t].after = [f.mem EXCEPT ![f.dest + 1] = y],
                                          ![t].ovec = f.ovec \o << Feedback(c, x, y) >>]
  /\ UNCHANGED << heap, owned, keyOf, modeOf, inp, outp, last, overlapped >>

\* the copy, shifted by one byte, is stored as the register and the call
\* returns
CallShift(t) ==
  /\ inflight[t].pc = "shift"
  /\ \E f \in {inflight[t]} :
       /\ heap' = [heap EXCEPT ![f.ptr].iv = Tail(f.ovec)]
       /\ inp' = [inp EXCEPT ![f.ptr] = @ \o << f.mem[f.source + 1] >>]
       /\ outp' = [outp EXCEPT ![f.ptr] = @ \o << f.after[f.dest + 1] >>]
       /\ last' = [op |-> "process", ptr |-> f.ptr, len |-> 1, source |-> f.source,
                   dest |-> f.dest, before |-> f.mem, after |-> f.after,
                   reads |-> {f.source}, writes |-> {f.dest}, result |-> 1,
                   exc |-> "none"]
  /\ inflight' = [inflight EXCEPT ![t] = Idle]
  /\ UNCHANGED << owned, keyOf, modeOf, overlapped >>

Enter == \E t \in Threads : CallEnter(t)
Block == \E t \in Threads : CallBlock(t)
BlockStore == \E t \in Threads : CallBlockStore(t)
XorByte == \E t \in Threads : CallXor(t)
Shift == \E t \in Threads : CallShift(t)

NextReorder ==
  \/ ConstructQuiet \/ ReleaseQuiet \/ ProcessReordered
  \/ Enter \/ Block \/ BlockStore \/ XorByte \/ Shift

SpecReorder == Init /\ [][NextReorder]_vars

(***************************************************************************)
(* Properties.                                                              *)
(***************************************************************************)
\* C1: init with a key whose length is not 16 throws IllegalArgumentException
\* (InvalidKeyLength), returns the null handle, and reaches no allocation:
\* the heap after the call is the heap before it.
C1_InvalidKeyLength ==
  [][(last'.op = "init" /\ last'.keyLen # KeyLen)
       => /\ last'.exc = IllegalArgument
          /\ last'.ret = NULL
          /\ last'.ctx = NULL
          /\ heap' = heap
          /\ owned' = owned]_vars

\* a key of wrong length was refused while a context was live
C1_Witness == last.op = "init" /\ last.keyLen # KeyLen /\ Live # {}

\* the output of one process call on all of data, in place, on a fresh context
\* constructed by init(key, encrypt)
OneShot(key, encrypt, data) ==
  LET c == InitCtx(GetByteArrayRegion(key, 0, Len(key)), encrypt, 1, "none")
  IN SubSeq(EVP_CipherUpdate(c, data, 0, 0, Len(data), 1).mem, 1, Len(data))

\* C2: streaming equivalence.  What a context has produced over all its
\* process calls, concatenated, is what one process call on the concatenated
\* input yields on a fresh context with the same key and mode, however the
\* input was split into calls (empty calls included).  Calls whose update
\* failed consume and produce nothing.
C2_StreamingEquivalence ==
  \A h \in owned : outp[h] = OneShot(keyOf[h], modeOf[h], inp[h])

\* a context has taken a stream of two bytes or more in several calls
C2_Witness ==
  /\ last.op = "process" /\ last.result = 1 /\ last.len = 1
  /\ last.ptr \in owned /\ Len(inp[last.ptr]) >= 2

\* C3: round trip.  A decrypt context given the bytes an encrypt context with
\* the same key has produced yields the plaintext the encrypt context was
\* given, byte for byte, whatever the call boundaries on either side.
C3_RoundTrip ==
  \A e \in owned, d \in owned :
    (/\ modeOf[e] = 1 /\ modeOf[d] = 0 /\ keyOf[e] = keyOf[d]
     /\ IsPrefix(inp[d], outp[e]))
      => outp[d] = SubSeq(inp[e], 1, Len(inp[d]))

\* a decrypt context has taken, one byte per call, the two bytes an encrypt
\* context with its key produced
C3_Witness ==
  /\ last.op = "process" /\ last.result = 1 /\ last.len = 1
  /\ \E e \in owned, d \in owned :
       /\ last.ptr = d /\ modeOf[e] = 1 /\ modeOf[d] = 0 /\ keyOf[e] = keyOf[d]
       /\ Len(inp[d]) >= 2 /\ inp[d] = outp[e] /\ outp[d] = inp[e]

\* C4: when EVP_CipherInit reports an error, the context allocated by the same
\* call is freed before GeneralSecurityException (BackendInitFailure) is
\* thrown: no handle is returned and the live contexts are those before the
\* call.
C4_InitFailureReleases ==
  [][(last'.op = "init" /\ last'.result = 0)
       => /\ last'.exc = GeneralSecurity
          /\ last'.ret = NULL
          /\ last'.ctx \notin Live'
          /\ heap' = heap
          /\ Cardinality(Live') = Cardinality(Live)]_vars

\* EVP_CipherInit failed on a context the call had allocated, next to a live one
C4_Witness == last.op = "init" /\ last.result = 0 /\ last.ctx # NULL /\ Live # {}

\* C5: every init that returns no handle, whatever step failed, leaves no
\* context it allocated live: the live contexts are those before the call.
C5_NoLeakOnAnyError ==
  [][(last'.op = "init" /\ last'.ret = NULL) => Live' = Live]_vars

\* C6: when EVP_CipherUpdate reports an error, process surfaces it to its
\* caller: an exception is pending when the call returns.
C6_UpdateFailureSurfaced ==
  (last.op = "process" /\ last.result = 0) => last.exc # "none"

\* C7: operations act on contexts that are not released, and a context whose
\* update failed is released by that call, so that no later process runs on it.
C7_ReleasedIsTerminal ==
  [][/\ (last'.op \in {"process", "free"} /\ last'.ptr # NULL) => last'.ptr \in owned
     /\ (last'.op = "process" /\ last'.result = 0) => last'.ptr \notin Live']_vars

\* C8: process on zero-length input writes nothing and changes nothing but the
\* record of the call: the context, and so every later output, is as if the
\* call had not been made.
C8_ZeroLengthNoOp ==
  [][(last'.op = "process" /\ last'.len = 0)
       => /\ UNCHANGED << heap, owned, keyOf, modeOf, inp, outp >>
          /\ last'.after = last'.before
          /\ last'.writes = {}
          /\ last'.reads = {}]_vars

\* a zero-length call was made in the middle of a stream
C8_Witness ==
  /\ last.op = "process" /\ last.result = 1 /\ last.len = 0
  /\ last.ptr \in owned /\ Len(inp[last.ptr]) = 1

\* C9: a process call of length N whose update succeeds reads the source at
\* offsets 0..N-1 only, writes the destination at offsets 0..N-1 only, leaves
\* every other byte as it was, and adds exactly N bytes to the output.
C9_ExactlyNBytes ==
  [][(last'.op = "process" /\ last'.result = 1)
       => LET N == last'.len
              W == {last'.dest + i : i \in 0..(N - 1)}
          IN /\ last'.writes = W
             /\ last'.reads = {last'.source + i : i \in 0..(N - 1)}
             /\ Len(last'.after) = Len(last'.before)
             /\ \A a \in 1..Len(last'.before) :
                  (a - 1) \notin W => last'.after[a] = last'.before[a]
             /\ Len(outp'[last'.ptr]) = Len(outp[last'.ptr]) + N
             /\ Len(inp'[last'.ptr]) = Len(inp[last'.ptr]) + N]_vars

\* a call of the full buffer length into a separate destination
C9_Witness ==
  last.op = "process" /\ last.result = 1 /\ last.len = BufCap /\ last.dest # last.source

\* C10: determinism given the key.  Two contexts with the same key and mode
\* agree on their output as far as their input agrees, and the first output
\* byte is the first input byte XOR the first byte of AES(key, key): the
\* register starts as the key.
C10_Deterministic ==
  /\ \A a \in owned, b \in owned :
       (keyOf[a] = keyOf[b] /\ modeOf[a] = modeOf[b] /\ IsPrefix(inp[a], inp[b]))
         => IsPrefix(outp[a], outp[b])
  /\ \A h \in owned :
       Len(inp[h]) >= 1
         => outp[h][1] = Xor(inp[h][1], AES_encrypt(keyOf[h], AES_set_encrypt_key(keyOf[h]))[1])

\* two contexts with the same nonzero key and mode have taken the same two bytes
C10_Witness ==
  \E a \in owned, b \in owned :
    /\ a # b /\ keyOf[a] = keyOf[b] /\ modeOf[a] = modeOf[b] /\ keyOf[a][1] # 0
    /\ inp[a] = inp[b] /\ Len(inp[a]) >= 2 /\ outp[a] = outp[b]
\* the context a step is aimed at: the one init allocates, the one free or
\* process is handed
Target(l) == IF l.op = "init" THEN l.ctx ELSE l.ptr

\* C11: operations on different contexts never interact.  A step aimed at one
\* context leaves every other context as it was: its cipher state (register,
\* key schedule, mode), whether it is live and owned, and the stream it has
\* taken and produced.
C11_CrossContextIsolation ==
  [][\A b \in Handles \ {Target(last')} :
       /\ (b \in Live') = (b \in Live)
       /\ (b \in owned') = (b \in owned)
       /\ b \in Live => heap'[b] = heap[b]
       /\ keyOf'[b] = keyOf[b] /\ modeOf'[b] = modeOf[b]
       /\ inp'[b] = inp[b] /\ outp'[b] = outp[b]]_vars

\* a successful two-byte call on one context while another context, which has
\* already taken bytes, is live
C11_Witness ==
  /\ last.op = "process" /\ last.result = 1 /\ last.len = BufCap
  /\ \E b \in owned \ {last.ptr} : Len(inp[b]) >= 1
\* C12: the failure causes of init have their own error kinds and a handle is
\* returned exactly when no error is reported.  A key of the wrong length
\* gives IllegalArgumentException (InvalidKeyLength), a failed allocation
\* OutOfMemoryError (ResourceExhausted), a failed EVP_CipherInit
\* GeneralSecurityException (BackendInitFailure); each of these kinds has no
\* other cause, and the value returned is nonzero iff no exception is pending.
C12_DistinctErrors ==
  last.op = "init" =>
    /\ (last.keyLen # KeyLen) = (last.exc = "java/lang/IllegalArgumentException")
    /\ (last.keyLen = KeyLen /\ last.ctx = NULL)
          = (last.exc = "java/lang/OutOfMemoryError")
    /\ (last.result = 0) = (last.exc = "java/security/GeneralSecurityException")
    /\ (last.ret # NULL) = (last.exc = "none")
    /\ last.ret # NULL => last.ret \in owned

\* a call of init failed in EVP_CipherInit while the handle an earlier call
\* returned is still held
C12_Witness ==
  /\ last.op = "init" /\ last.result = 0 /\ last.exc = GeneralSecurity
  /\ owned # {}
\* C13: in-place processing.  A call whose destination is its source region
\* and the same call, from the same context state and buffer contents, into a
\* separate region produce the same len output bytes and leave the context in
\* the same state.  Each successful call of the run is compared with the
\* update it would have been with the other destination.
C13_InPlaceEquivalence ==
  [][(last'.op = "process" /\ last'.result = 1) =>
       \A other \in {IF last'.dest = last'.source THEN BufCap ELSE last'.source} :
         \A alt \in {EVP_CipherUpdate(heap[last'.ptr], last'.before, other,
                                      last'.source, last'.len, 1)} :
           /\ alt.outl = last'.len
           /\ SubSeq(alt.mem, other + 1, other + last'.len)
                = SubSeq(last'.after, last'.dest + 1, last'.dest + last'.len)
           /\ alt.ctx = heap'[last'.ptr]]_vars

\* a decrypting context has taken the full buffer in place
C13_Witness ==
  /\ last.op = "process" /\ last.result = 1 /\ last.len = BufCap
  /\ last.dest = last.source /\ last.ptr \in owned /\ modeOf[last.ptr] = 0
  /\ last.writes = last.reads
\* context h was handed all of Plain, and not in stream order
OutOfOrder(h) == TookAll(h) /\ inp[h] # Plain

\* C14: calls made out of stream order, or at the same time, corrupt the
\* stream silently.  No call of process reports an error, whatever the order
\* and the overlap.  When an encrypting context was handed the bytes of the
\* stream one call after another but out of order, its output put back in
\* stream order is not the ciphertext of the stream.  And whatever an
\* encrypting context has made of the stream, in or out of order, with or
\* without overlap, a decrypting context with the same key that takes it in
\* stream order, one call after another, gives the plaintext back only if
\* it is the ciphertext of the stream.
C14_ReorderCorruptsSilently ==
  /\ last.op = "process" => last.exc = "none"
  /\ \A e \in owned :
       (modeOf[e] = 1 /\ TookAll(e)) =>
         /\ Len(outp[e]) = Len(Plain)
         /\ (OutOfOrder(e) /\ e \notin overlapped)
              => Reassembled(e) # OneShot(keyOf[e], 1, Plain)
         /\ \A d \in owned \ overlapped :
              (modeOf[d] = 0 /\ keyOf[d] = keyOf[e] /\ inp[d] = Reassembled(e))
                => /\ Len(outp[d]) = Len(Plain)
                   /\ (outp[d] = Plain) = (Reassembled(e) = OneShot(keyOf[e], 1, Plain))

\* two calls have overlapped on an encrypting context, what it made of the
\* stream is not the ciphertext, and a decrypting context with its key has
\* taken all of it in order and has not returned the plaintext
C14_Witness ==
  \E e \in owned \cap overlapped, d \in owned \ overlapped :
    /\ modeOf[e] = 1 /\ TookAll(e)
    /\ Reassembled(e) # OneShot(keyOf[e], 1, Plain)
    /\ modeOf[d] = 0 /\ keyOf[d] = keyOf[e] /\ inp[d] = Reassembled(e)
    /\ outp[d] # Plain
    /\ last.op = "process" /\ last.ptr = d /\ last.exc = "none"

\* the feedback register of a context keyed with key after the ciphertext
\* bytes ct: the last KeyLen bytes of the key followed by ct
Register(key, ct) == SubSeq(key \o ct, Len(ct) + 1, Len(ct) + KeyLen)

\* C15: the mode of a context is fixed at construction and nothing resets or
\* rekeys it.  Every context whose handle is held has the mode and the key
\* schedule of the key init was given, and its register is the one the whole
\* stream since construction has left: it was never set back.
C15_ModeAndKeyFixed ==
  \A h \in owned :
    /\ heap[h].cipher = "aes-128-cfb8"
    /\ heap[h].encrypt = modeOf[h]
    /\ heap[h].ks = AES_set_encrypt_key(keyOf[h])
    /\ heap[h].iv = Register(keyOf[h], IF modeOf[h] = 1 THEN outp[h] ELSE inp[h])

\* an encrypting context has taken the whole stream in two calls while a
\* decrypting context is held as well
C15_Witness ==
  /\ last.op = "process" /\ last.result = 1 /\ last.len = 1
  /\ last.ptr \in owned /\ modeOf[last.ptr] = 1 /\ Len(inp[last.ptr]) = MaxStream
  /\ \E d \in owned : modeOf[d] = 0 /\ Len(inp[d]) >= 1
\* C16: process never allocates or frees a context.  Whether the update
\* succeeds or fails, a call of process leaves the set of live contexts and
\* the set of held handles as they were, its own context included; and a
\* context that was live stops being so only in a call of free, which frees
\* the one it is handed.
C16_ProcessKeepsLifecycle ==
  [][/\ last'.op = "process" =>
          (Live' = Live /\ owned' = owned /\ last'.ptr \in Live' \cap owned')
     /\ Live \ Live' # {} =>
          (last'.op = "free" /\ Live \ Live' = {last'.ptr})]_vars

\* the update of a call failed and the context is still live and held, next
\* to a second live context
C16_Witness ==
  /\ last.op = "process" /\ last.result = 0 /\ last.len >= 1
  /\ last.ptr \in Live \cap owned /\ Cardinality(Live) = MaxCtx
\* C17: init checks in a fixed order and stops at the first check that fails.
\* In the record of a call, ctx is NULL when the allocation was not reached or
\* failed and result is -1 when EVP_CipherInit was not reached.  A key of the
\* wrong length is reported as IllegalArgumentException with nothing after it
\* reached, also when no address is free and the allocation would fail; a
\* failed allocation stops before the copy, a failed copy before
\* EVP_CipherInit; and a failing call leaves one exception.
C17_FirstFailureWins ==
  [][last'.op = "init" =>
       /\ last'.keyLen # KeyLen =>
            (last'.exc = IllegalArgument /\ last'.ctx = NULL /\ last'.result = -1
               /\ heap' = heap)
       /\ last'.exc = OutOfMemory =>
            (last'.keyLen = KeyLen /\ last'.ctx = NULL /\ last'.result = -1)
       /\ last'.exc = ArrayIndexOutOfBounds =>
            (last'.keyLen = KeyLen /\ last'.ctx \in Handles \ Live /\ last'.result = -1)
       /\ last'.exc = GeneralSecurity =>
            (last'.keyLen = KeyLen /\ last'.ctx \in Handles \ Live /\ last'.result = 0)
       /\ last'.exc = "none" =>
            (last'.keyLen = KeyLen /\ last'.ctx \in Handles \ Live /\ last'.result = 1)
       /\ last'.exc \in {"none", IllegalArgument, OutOfMemory, ArrayIndexOutOfBounds,
                          GeneralSecurity}]_vars

\* a key of the wrong length was refused while every address was taken, so
\* that the allocation would have failed as well
C17_Witness ==
  /\ last.op = "init" /\ last.keyLen # KeyLen /\ last.exc = IllegalArgument
  /\ Live = Handles
\* C18: free on the null handle is a no-op.  A call of free with 0, the value
\* init returns on every failure, frees nothing, changes no context and no
\* held handle, and leaves no exception.
C18_FreeNullIsNoOp ==
  [][(last'.op = "free" /\ last'.ptr = NULL) =>
       /\ heap' = heap /\ owned' = owned
       /\ keyOf' = keyOf /\ modeOf' = modeOf /\ inp' = inp /\ outp' = outp
       /\ last'.exc = "none"]_vars

\* free was called with 0 while a context that has taken bytes is held
C18_Witness ==
  /\ last.op = "free" /\ last.ptr = NULL /\ last.exc = "none"
  /\ \E h \in owned \cap Live : Len(outp[h]) >= 1
====
